---- MODULE Spec2Model ----
(***************************************************************************)
(* Semaphores, locks with priority donation, and condition variables of    *)
(* threads/synch.c.                                                         *)
(*                                                                          *)
(* A thread is a process with a program counter (pc).  One action is what   *)
(* the code executes between two points at which another thread can run:    *)
(* sema_down, sema_try_down and sema_up run with interrupts disabled and    *)
(* are single actions; lock_acquire, lock_try_acquire, lock_release,        *)
(* cond_wait and cond_signal do not disable interrupts, so each of their    *)
(* statements is an action of its own.  The scheduler (threads/thread.c) is *)
(* not part of the file: any ready thread may take the next step.           *)
(*                                                                          *)
(* A failed ASSERT, a dereference of a NULL holder and a priority_donation  *)
(* that follows a cyclic wait_on_lock chain stop the kernel: `panic' names  *)
(* the cause and no action is enabled afterwards.                           *)
(***************************************************************************)
EXTENDS Integers, Sequences, FiniteSets, TLC

NThreads == 4
NLocks == 2
MaxOps == 5
MaxValue == 2
NCondThreads == 3
MaxCondOps == 6
MaxPrioOps == 6
MaxTryOps == 4
NMesaThreads == 2
MaxMesaOps == 9

NULL == 0

Threads == 1..NThreads
Locks == 1..NLocks

LockSema(l) == <<"lock", l>>
UserSema == <<"user", NULL>>
WaiterSema(t) == <<"waiter", t>>
Semas == {LockSema(l) : l \in Locks} \cup {UserSema} \cup {WaiterSema(t) : t \in Threads}

VARIABLES
    pc,              \* thread -> the statement it is at ("idle": between calls)
    cur,             \* thread -> the lock argument of the call it is in, or NULL
    frame,           \* thread -> "cond_wait" inside cond_wait, else "none"
    status,          \* thread -> "ready" | "blocked" (thread_block / thread_unblock)
    value,           \* semaphore -> sema->value
    waiters,         \* semaphore -> sema->waiters, a list of threads
    holder,          \* lock -> lock->holder, a thread or NULL
    priority,        \* thread -> t->priority
    origin_priority, \* thread -> t->origin_priority
    donations,       \* thread -> t->donations, a list of threads
    wait_on_lock,    \* thread -> t->wait_on_lock, a lock or NULL
    cond_waiters,    \* cond->waiters: the list of semaphore_elems, each named by its thread
    thread_mlfqs,    \* the global mode flag
    strict,          \* TRUE: strict priority scheduling; FALSE: any ready thread runs
    ub,              \* what the build returns where cmp_priority_by_sema returns nothing
    panic,           \* "none", or why the kernel stopped
    ops,             \* number of calls the program still makes
    held,            \* thread -> locks whose acquire returned to it and it has not released
    downs,           \* completed downs of the user semaphore
    ups,             \* completed sema_ups of the user semaphore
    init_value,      \* the value the user semaphore was initialised to
    woke,            \* the last wake-up by sema_up on the user semaphore
    wups,            \* thread -> sema_ups of its waiter.semaphore since its sema_init
    ret,             \* the last return of a try operation
    requeued,        \* a woken thread has queued again on the user semaphore
    predicate,       \* the condition the callers of cond_wait wait for
    loops            \* thread -> 0, or 1 + the cond_waits made in its `while' loop

vars == <<pc, cur, frame, status, value, waiters, holder, priority, origin_priority,
          donations, wait_on_lock, cond_waiters, thread_mlfqs, strict, ub, panic, ops,
          held, downs, ups, init_value, woke, wups, ret, requeued, predicate, loops>>

semv == <<status, value, waiters>>
lockv == <<holder, priority, donations, wait_on_lock>>
envv == <<origin_priority, thread_mlfqs, strict, ub, init_value>>
histv == <<held, downs, ups, woke>>
obsv == <<wups, ret, requeued>>
userv == <<predicate, loops>>

----------------------------------------------------------------------------
(* The list container (lib/kernel/list.c) and the thread comparator.       *)

cmp_priority(a, b) == priority[a] > priority[b]

cmp_priority_donation(a, b) == priority[a] > priority[b]

\* The comparators as passed to the list functions: less[a, b].
by_priority == [a \in Threads, b \in Threads |-> cmp_priority(a, b)]

by_donation == [a \in Threads, b \in Threads |-> cmp_priority_donation(a, b)]

\* list_insert_ordered: before the first element e with less[elem, e].
list_insert_ordered(list, elem, less) ==
    LET before == {i \in 1..Len(list) : less[elem, list[i]]}
        k == IF before = {} THEN Len(list) + 1
             ELSE CHOOSE i \in before : \A j \in before : i <= j
    IN  SubSeq(list, 1, k - 1) \o <<elem>> \o SubSeq(list, k, Len(list))

\* list_sort: a stable sort.
list_sort(list, less) ==
    LET sorted[i \in 0..Len(list)] ==
            IF i = 0 THEN <<>> ELSE list_insert_ordered(sorted[i - 1], list[i], less)
    IN  sorted[Len(list)]

Elems(list) == {list[i] : i \in 1..Len(list)}

----------------------------------------------------------------------------
(* Semaphores.                                                             *)

\* (mutant) sema_try_down that does not look at the value.
sema_try_down_always(s) == TRUE

sema_try_down_success(s) == value[s] > 0

\* (mutant) sema_down with `if' for `while': a woken thread decrements without
\* looking at the value again.
sema_down_if(t, s, sleep, next) ==
    IF value[s] = 0 /\ pc[t] # sleep
    THEN /\ waiters' = [waiters EXCEPT ![s] = list_insert_ordered(@, t, by_priority)]
         /\ status' = [status EXCEPT ![t] = "blocked"]
         /\ pc' = [pc EXCEPT ![t] = sleep]
         /\ UNCHANGED value
    ELSE /\ value' = [value EXCEPT ![s] = @ - 1]
         /\ pc' = [pc EXCEPT ![t] = next]
         /\ UNCHANGED <<waiters, status>>

\* One pass of sema_down's loop by thread t, which enters it (pc = enter) or was
\* put to sleep in it (pc = sleep): queue and block while the value is 0,
\* decrement and go on to `next' otherwise.
sema_down(t, s, sleep, next) ==
    IF value[s] = 0
    THEN /\ waiters' = [waiters EXCEPT ![s] = list_insert_ordered(@, t, by_priority)]
         /\ status' = [status EXCEPT ![t] = "blocked"]
         /\ pc' = [pc EXCEPT ![t] = sleep]
         /\ UNCHANGED value
    ELSE /\ value' = [value EXCEPT ![s] = @ - 1]
         /\ pc' = [pc EXCEPT ![t] = next]
         /\ UNCHANGED <<waiters, status>>

\* (mutant) sema_up without the list_sort.
sema_up_unsorted(s) == waiters[s]

sema_up_order(s) == list_sort(waiters[s], by_priority)

\* (mutant) sema_up that unblocks the front waiter and leaves it in the list.
sema_up_keeping(s) ==
    /\ IF waiters[s] # <<>>
       THEN /\ waiters' = [waiters EXCEPT ![s] = sema_up_order(s)]
            /\ status' = [status EXCEPT ![Head(sema_up_order(s))] = "ready"]
       ELSE UNCHANGED <<waiters, status>>
    /\ value' = [value EXCEPT ![s] = @ + 1]

\* sema_up: sort the waiters, pop and unblock the front one, increment.
sema_up(s) ==
    /\ IF waiters[s] # <<>>
       THEN /\ waiters' = [waiters EXCEPT ![s] = Tail(sema_up_order(s))]
            /\ status' = [status EXCEPT ![Head(sema_up_order(s))] = "ready"]
       ELSE UNCHANGED <<waiters, status>>
    /\ value' = [value EXCEPT ![s] = @ + 1]

----------------------------------------------------------------------------
(* The donation engine.                                                    *)

is_waiter(d, l) == wait_on_lock[d] = l

\* (mutant) priority_donation that ignores the donors.
donated_priority_none(pri, t) == origin_priority[t]

\* The priority priority_donation gives t: that of the front donor if it is above
\* t's base priority.
donated_priority(pri, t) ==
    IF donations[t] = <<>>
    THEN origin_priority[t]
    ELSE IF origin_priority[t] < pri[Head(donations[t])]
         THEN pri[Head(donations[t])]
         ELSE origin_priority[t]

\* priority_donation(t) on the priorities pri; seen: the threads the recursion went
\* through.  The result is the priorities it leaves, or the reason it never returns.
RECURSIVE priority_donation(_, _, _)
priority_donation(pri, t, seen) ==
    IF t = NULL
    THEN [why |-> "assert_t_null", pri |-> pri]
    ELSE IF t \in seen
    THEN [why |-> "donation_cycle", pri |-> pri]
    ELSE LET p1 == [pri EXCEPT ![t] = donated_priority(pri, t)]
         IN  IF wait_on_lock[t] # NULL
             THEN priority_donation(p1, holder[wait_on_lock[t]], seen \cup {t})
             ELSE [why |-> "none", pri |-> p1]

----------------------------------------------------------------------------
(* Locks.                                                                  *)

\* Strict priority scheduling on one core: a thread runs only if no thread that is
\* ready in the middle of a call has a higher priority.  A thread between calls
\* is elsewhere (asleep, or in code of its own) and makes its next call when the
\* scheduler lets it run.
Runnable(t) ==
    \A u \in Threads \ {t} :
        (status[u] = "ready" /\ pc[u] # "idle") => priority[u] <= priority[t]

\* t can take a step: the kernel runs, t is not blocked and the scheduler picks it.
Ready(t) == panic = "none" /\ status[t] = "ready" /\ (strict => Runnable(t))

Idle(t) == Ready(t) /\ pc[t] = "idle"

At(t, label) == Ready(t) /\ pc[t] = label

\* What the caller must respect: locks are taken in ascending order, so the
\* wait_on_lock chain of a program is acyclic.
MayAcquire(t, l) == l \notin held[t] /\ \A h \in held[t] : h < l

\* Where lock_acquire returns to: the program, or the `while' loop that called
\* cond_wait.
Return(t) == IF frame[t] = "cond_wait" /\ loops[t] > 0 THEN "mesa_test" ELSE "idle"

\* lock_acquire from its first statement to the sema_try_down inside
\* lock_try_acquire.
lock_acquire_enter(t, l) ==
    /\ cur' = [cur EXCEPT ![t] = l]
    /\ IF sema_try_down_success(LockSema(l))
       THEN /\ value' = [value EXCEPT ![LockSema(l)] = @ - 1]
            /\ pc' = [pc EXCEPT ![t] = "la_try_set"]
       ELSE /\ pc' = [pc EXCEPT ![t] = "la_wait"]
            /\ UNCHANGED value

\* lock_acquire is called by the program.
lock_acquire_call(t, l) ==
    /\ Idle(t) /\ ops > 0 /\ MayAcquire(t, l)
    /\ ops' = ops - 1
    /\ lock_acquire_enter(t, l)
    /\ UNCHANGED <<frame, panic, status, waiters, lockv, cond_waiters, envv, obsv, userv, histv>>

NoReturn == [op |-> "none", ok |-> FALSE, at |-> NULL, lock |-> NULL]

\* (mutant) lock_try_acquire that marks the caller as a waiter of the lock before
\* it knows whether it got it, as lock_acquire does.
lock_try_acquire_marking(t, l) ==
    /\ Idle(t) /\ ops > 0 /\ l \notin held[t]
    /\ ops' = ops - 1
    /\ IF sema_try_down_success(LockSema(l))
       THEN /\ value' = [value EXCEPT ![LockSema(l)] = @ - 1]
            /\ pc' = [pc EXCEPT ![t] = "lt_set"]
            /\ cur' = [cur EXCEPT ![t] = l]
            /\ UNCHANGED wait_on_lock
       ELSE /\ wait_on_lock' = [wait_on_lock EXCEPT ![t] = l]
            /\ UNCHANGED <<value, pc, cur>>
    /\ UNCHANGED <<frame, panic, status, waiters, holder, priority, donations,
                   cond_waiters, envv, wups, requeued, userv, histv>>

\* lock_try_acquire from its first statement to sema_try_down; on failure it
\* returns false at once.
lock_try_acquire_enter(t, l) ==
    /\ Idle(t) /\ ops > 0 /\ l \notin held[t]
    /\ ops' = ops - 1
    /\ IF sema_try_down_success(LockSema(l))
       THEN /\ value' = [value EXCEPT ![LockSema(l)] = @ - 1]
            /\ pc' = [pc EXCEPT ![t] = "lt_set"]
            /\ cur' = [cur EXCEPT ![t] = l]
       ELSE UNCHANGED <<value, pc, cur>>
    /\ UNCHANGED <<frame, panic, status, waiters, lockv, cond_waiters, envv, wups,
                   requeued, userv, histv>>

\* lock_try_acquire is called by the program.
lock_try_acquire_call(t, l) ==
    /\ lock_try_acquire_enter(t, l)
    /\ UNCHANGED ret

\* lock_try_acquire is called by a program that keeps what it returns.
lock_try_acquire_result(t, l) ==
    /\ lock_try_acquire_enter(t, l)
    /\ ret' = [op |-> "lock_try_acquire", ok |-> sema_try_down_success(LockSema(l)),
               at |-> ops, lock |-> l]

\* lock_try_acquire, success: lock->holder = thread_current (), and return.  Inside
\* lock_acquire the return goes on to lock->holder->wait_on_lock = NULL, a write
\* to the caller's own field which no other thread reads differently before and
\* after (it is NULL on this path), and lock_acquire returns.
lock_try_acquire_set(t) ==
    /\ Ready(t) /\ pc[t] \in {"la_try_set", "lt_set"}
    /\ holder' = [holder EXCEPT ![cur[t]] = t]
    /\ wait_on_lock' = IF pc[t] = "la_try_set"
                       THEN [wait_on_lock EXCEPT ![t] = NULL]
                       ELSE wait_on_lock
    /\ pc' = [pc EXCEPT ![t] = Return(t)]
    /\ cur' = [cur EXCEPT ![t] = NULL]
    /\ frame' = [frame EXCEPT ![t] = "none"]
    /\ held' = [held EXCEPT ![t] = @ \cup {cur[t]}]
    /\ UNCHANGED <<ops, panic, semv, priority, donations, cond_waiters, envv, obsv, userv,
                   downs, ups, woke>>

\* (mutant) lock_acquire that donates whatever the mode.
lock_acquire_wait_donating(t) ==
    /\ At(t, "la_wait")
    /\ wait_on_lock' = [wait_on_lock EXCEPT ![t] = cur[t]]
    /\ pc' = [pc EXCEPT ![t] = "la_insert"]
    /\ UNCHANGED <<cur, frame, ops, panic, semv, holder, priority, donations,
                   cond_waiters, envv, obsv, userv, histv>>

\* lock_acquire: thread_current ()->wait_on_lock = lock.
lock_acquire_wait(t) ==
    /\ At(t, "la_wait")
    /\ wait_on_lock' = [wait_on_lock EXCEPT ![t] = cur[t]]
    /\ pc' = [pc EXCEPT ![t] = IF thread_mlfqs THEN "la_down" ELSE "la_insert"]
    /\ UNCHANGED <<cur, frame, ops, panic, semv, holder, priority, donations,
                   cond_waiters, envv, obsv, userv, histv>>

\* lock_acquire: list_insert_ordered (&lock->holder->donations, ...).
lock_acquire_insert(t) ==
    /\ At(t, "la_insert")
    /\ IF holder[cur[t]] = NULL
       THEN /\ panic' = "null_holder"
            /\ UNCHANGED <<pc, donations>>
       ELSE /\ donations' = [donations EXCEPT ![holder[cur[t]]] =
                                list_insert_ordered(@, t, by_donation)]
            /\ pc' = [pc EXCEPT ![t] = "la_donate"]
            /\ UNCHANGED panic
    /\ UNCHANGED <<cur, frame, ops, semv, holder, priority, wait_on_lock,
                   cond_waiters, envv, obsv, userv, histv>>

\* lock_acquire: priority_donation (lock->holder).
lock_acquire_donate(t) ==
    /\ At(t, "la_donate")
    /\ LET r == priority_donation(priority, holder[cur[t]], {})
       IN  /\ priority' = r.pri
           /\ panic' = r.why
           /\ pc' = [pc EXCEPT ![t] = IF r.why = "none" THEN "la_down" ELSE @]
    /\ UNCHANGED <<cur, frame, ops, semv, holder, donations, wait_on_lock,
                   cond_waiters, envv, obsv, userv, histv>>

\* lock_acquire: sema_down (&lock->semaphore).
lock_acquire_down(t) ==
    /\ Ready(t) /\ pc[t] \in {"la_down", "la_sleep"}
    /\ sema_down(t, LockSema(cur[t]), "la_sleep", "la_set")
    /\ UNCHANGED <<cur, frame, ops, panic, lockv, cond_waiters, envv, obsv, userv, histv>>

\* (mutant) lock_acquire that leaves lock->holder as it finds it after sema_down.
lock_acquire_set_skipped(t) ==
    /\ At(t, "la_set")
    /\ pc' = [pc EXCEPT ![t] = "la_clear"]
    /\ UNCHANGED <<cur, frame, ops, panic, semv, holder, priority, donations,
                   wait_on_lock, cond_waiters, envv, obsv, userv, histv>>

\* lock_acquire: lock->holder = thread_current ().
lock_acquire_set(t) ==
    /\ At(t, "la_set")
    /\ holder' = [holder EXCEPT ![cur[t]] = t]
    /\ pc' = [pc EXCEPT ![t] = "la_clear"]
    /\ UNCHANGED <<cur, frame, ops, panic, semv, priority, donations, wait_on_lock,
                   cond_waiters, envv, obsv, userv, histv>>

\* lock_acquire: lock->holder->wait_on_lock = NULL, and return.
lock_acquire_clear(t) ==
    /\ At(t, "la_clear")
    /\ IF holder[cur[t]] = NULL
       THEN /\ panic' = "null_holder"
            /\ UNCHANGED <<pc, cur, frame, wait_on_lock, held>>
       ELSE /\ wait_on_lock' = [wait_on_lock EXCEPT ![holder[cur[t]]] = NULL]
            /\ pc' = [pc EXCEPT ![t] = Return(t)]
            /\ cur' = [cur EXCEPT ![t] = NULL]
            /\ frame' = [frame EXCEPT ![t] = "none"]
            /\ held' = [held EXCEPT ![t] = @ \cup {cur[t]}]
            /\ UNCHANGED panic
    /\ UNCHANGED <<ops, semv, holder, priority, donations, cond_waiters, envv, obsv, userv,
                   downs, ups, woke>>

\* lock_release, the donors it keeps: those not waiting for the lock, re-sorted.
lock_release_donations(t, l) ==
    list_sort(SelectSeq(donations[t], LAMBDA d : ~is_waiter(d, l)), by_donation)

\* lock_release from its first statement to list_sort.
lock_release_enter(t, l) ==
    /\ cur' = [cur EXCEPT ![t] = l]
    /\ IF holder[l] # t
       THEN /\ panic' = "assert_lock_held"
            /\ UNCHANGED <<pc, donations>>
       ELSE /\ UNCHANGED panic
            /\ IF thread_mlfqs
               THEN /\ pc' = [pc EXCEPT ![t] = "lr_null"]
                    /\ UNCHANGED donations
               ELSE /\ pc' = [pc EXCEPT ![t] = "lr_donate"]
                    /\ donations' = [donations EXCEPT ![t] = lock_release_donations(t, l)]

\* lock_release is called by the program.
lock_release_call(t, l) ==
    /\ Idle(t) /\ ops > 0 /\ l \in held[t]
    /\ ops' = ops - 1
    /\ lock_release_enter(t, l)
    /\ UNCHANGED <<frame, semv, holder, priority, wait_on_lock, cond_waiters, envv, obsv, userv, histv>>

\* lock_release: priority_donation (lock->holder).
lock_release_donate(t) ==
    /\ At(t, "lr_donate")
    /\ LET r == priority_donation(priority, holder[cur[t]], {})
       IN  /\ priority' = r.pri
           /\ panic' = r.why
           /\ pc' = [pc EXCEPT ![t] = IF r.why = "none" THEN "lr_null" ELSE @]
    /\ UNCHANGED <<cur, frame, ops, semv, holder, donations, wait_on_lock,
                   cond_waiters, envv, obsv, userv, histv>>

\* lock_release: lock->holder = NULL.
lock_release_null(t) ==
    /\ At(t, "lr_null")
    /\ holder' = [holder EXCEPT ![cur[t]] = NULL]
    /\ pc' = [pc EXCEPT ![t] = "lr_up"]
    /\ UNCHANGED <<cur, frame, ops, panic, semv, priority, donations, wait_on_lock,
                   cond_waiters, envv, obsv, userv, histv>>

\* lock_release: sema_up (&lock->semaphore), and return.
lock_release_up(t) ==
    /\ At(t, "lr_up")
    /\ sema_up(LockSema(cur[t]))
    /\ held' = [held EXCEPT ![t] = @ \ {cur[t]}]
    /\ pc' = [pc EXCEPT ![t] = IF frame[t] = "cond_wait" THEN "cw_down" ELSE "idle"]
    /\ cur' = [cur EXCEPT ![t] = IF frame[t] = "cond_wait" THEN @ ELSE NULL]
    /\ UNCHANGED <<frame, ops, panic, lockv, cond_waiters, envv, obsv, userv, downs, ups, woke>>

----------------------------------------------------------------------------
(* Calls on the user semaphore.                                            *)

MaxPriority(S) == CHOOSE p \in {priority[t] : t \in S} : \A u \in S : p >= priority[u]

sema_down_call(t) ==
    /\ Idle(t) /\ ops > 0
    /\ ops' = ops - 1
    /\ pc' = [pc EXCEPT ![t] = "sd"]
    /\ UNCHANGED <<cur, frame, panic, semv, lockv, cond_waiters, envv, obsv, userv, histv>>

\* sema_down on the user semaphore; the down is complete when it has decremented.
sema_down_step(t) ==
    /\ Ready(t) /\ pc[t] \in {"sd", "sd_sleep"}
    /\ sema_down(t, UserSema, "sd_sleep", "idle")
    /\ downs' = IF value[UserSema] = 0 THEN downs ELSE downs + 1
    /\ requeued' = (requeued \/ (pc[t] = "sd_sleep" /\ value[UserSema] = 0))
    /\ UNCHANGED <<cur, frame, ops, panic, lockv, cond_waiters, envv, wups, ret, userv, held, ups, woke>>

\* sema_try_down on the user semaphore.
sema_try_down_enter(t) ==
    /\ Idle(t) /\ ops > 0
    /\ ops' = ops - 1
    /\ IF sema_try_down_success(UserSema)
       THEN /\ value' = [value EXCEPT ![UserSema] = @ - 1]
            /\ downs' = downs + 1
       ELSE UNCHANGED <<value, downs>>
    /\ UNCHANGED <<pc, cur, frame, panic, status, waiters, lockv, cond_waiters, envv,
                   wups, requeued, userv, held, ups, woke>>

sema_try_down_call(t) ==
    /\ sema_try_down_enter(t)
    /\ UNCHANGED ret

\* sema_try_down is called by a program that keeps what it returns.
sema_try_down_result(t) ==
    /\ sema_try_down_enter(t)
    /\ ret' = [op |-> "sema_try_down", ok |-> sema_try_down_success(UserSema),
               at |-> ops, lock |-> NULL]

sema_up_call(t) ==
    /\ Idle(t) /\ ops > 0
    /\ ops' = ops - 1
    /\ sema_up(UserSema)
    /\ ups' = ups + 1
    /\ woke' = IF waiters[UserSema] = <<>>
               THEN woke
               ELSE LET w == CHOOSE x \in Threads : status[x] # status'[x]
                    IN  [pri |-> priority[w],
                         max |-> MaxPriority(Elems(waiters[UserSema])),
                         resorted |-> w # Head(waiters[UserSema])]
    /\ UNCHANGED <<pc, cur, frame, panic, lockv, cond_waiters, envv, obsv, userv, held, downs>>

----------------------------------------------------------------------------
(* Condition variables: one condition, used with the first lock.           *)

CondThreads == 1..NCondThreads

CondLock == CHOOSE l \in Locks : \A m \in Locks : l <= m

\* Where both private semaphores have a waiter the function calls cmp_priority and
\* returns nothing: the caller reads what the build left in the return register.
cmp_priority_by_sema(a, b) ==
    IF waiters[WaiterSema(a)] # <<>> /\ waiters[WaiterSema(b)] # <<>>
    THEN \/ ub = "true"
         \/ /\ ub = "cmp"
            /\ cmp_priority(Head(waiters[WaiterSema(a)]), Head(waiters[WaiterSema(b)]))
    ELSE FALSE

by_sema == [a \in Threads, b \in Threads |-> cmp_priority_by_sema(a, b)]

\* cond_wait from its first statement to list_insert_ordered: sema_init
\* (&waiter.semaphore, 0) and the insertion of the record.
cond_wait_enter(t) ==
    IF holder[CondLock] # t
    THEN /\ panic' = "assert_lock_held"
         /\ UNCHANGED <<pc, cur, frame, value, waiters, cond_waiters, wups>>
    ELSE /\ value' = [value EXCEPT ![WaiterSema(t)] = 0]
         /\ waiters' = [waiters EXCEPT ![WaiterSema(t)] = <<>>]
         /\ wups' = [wups EXCEPT ![t] = 0]
         /\ cond_waiters' = list_insert_ordered(cond_waiters, t, by_sema)
         /\ frame' = [frame EXCEPT ![t] = "cond_wait"]
         /\ cur' = [cur EXCEPT ![t] = CondLock]
         /\ pc' = [pc EXCEPT ![t] = "cw_release"]
         /\ UNCHANGED panic

\* cond_wait is called by the program.
cond_wait_call(t) ==
    /\ Idle(t) /\ ops > 0 /\ CondLock \in held[t]
    /\ ops' = ops - 1
    /\ cond_wait_enter(t)
    /\ UNCHANGED <<status, lockv, envv, ret, requeued, userv, histv>>

\* cond_wait: lock_release (lock), up to its list_sort.
cond_wait_release(t) ==
    /\ At(t, "cw_release")
    /\ lock_release_enter(t, cur[t])
    /\ UNCHANGED <<frame, ops, semv, holder, priority, wait_on_lock, cond_waiters,
                   envv, obsv, userv, histv>>

\* (mutant) cond_wait that does not wait on its semaphore.
cond_wait_down_skipped(t) ==
    /\ Ready(t) /\ pc[t] \in {"cw_down", "cw_sleep"}
    /\ pc' = [pc EXCEPT ![t] = "cw_acquire"]
    /\ UNCHANGED <<cur, frame, ops, panic, semv, lockv, cond_waiters, envv, obsv, userv, histv>>

\* cond_wait: sema_down (&waiter.semaphore).
cond_wait_down(t) ==
    /\ Ready(t) /\ pc[t] \in {"cw_down", "cw_sleep"}
    /\ sema_down(t, WaiterSema(t), "cw_sleep", "cw_acquire")
    /\ UNCHANGED <<cur, frame, ops, panic, lockv, cond_waiters, envv, obsv, userv, histv>>

\* A cond_wait that returns without lock_acquire (lock).
cond_wait_acquire_skipped(t) ==
    /\ At(t, "cw_acquire")
    /\ pc' = [pc EXCEPT ![t] = Return(t)]
    /\ cur' = [cur EXCEPT ![t] = NULL]
    /\ frame' = [frame EXCEPT ![t] = "none"]
    /\ UNCHANGED <<ops, panic, semv, lockv, cond_waiters, envv, obsv, userv, histv>>

\* cond_wait: lock_acquire (lock), up to its sema_try_down.
cond_wait_acquire(t) ==
    /\ At(t, "cw_acquire")
    /\ lock_acquire_enter(t, cur[t])
    /\ UNCHANGED <<frame, ops, panic, status, waiters, lockv, cond_waiters, envv, obsv, userv, histv>>

\* cond_signal is called: list_sort (&cond->waiters, ...).
cond_signal_call(t) ==
    /\ Idle(t) /\ ops > 0 /\ CondLock \in held[t]
    /\ ops' = ops - 1
    /\ IF holder[CondLock] # t
       THEN /\ panic' = "assert_lock_held"
            /\ UNCHANGED <<pc, cond_waiters>>
       ELSE /\ cond_waiters' = list_sort(cond_waiters, by_sema)
            /\ pc' = [pc EXCEPT ![t] = "cs_pop"]
            /\ UNCHANGED panic
    /\ UNCHANGED <<cur, frame, semv, lockv, envv, obsv, userv, histv>>

\* cond_signal: if the list is not empty, pop its front and sema_up its semaphore.
cond_signal_pop(t) ==
    /\ At(t, "cs_pop")
    /\ IF cond_waiters # <<>>
       THEN /\ cond_waiters' = Tail(cond_waiters)
            /\ sema_up(WaiterSema(Head(cond_waiters)))
            /\ wups' = [wups EXCEPT ![Head(cond_waiters)] = @ + 1]
       ELSE UNCHANGED <<cond_waiters, semv, wups>>
    /\ pc' = [pc EXCEPT ![t] = IF frame[t] = "cond_broadcast" THEN "cb_test" ELSE "idle"]
    /\ UNCHANGED <<cur, frame, ops, panic, lockv, envv, ret, requeued, userv, histv>>

\* cond_broadcast is called.
cond_broadcast_call(t) ==
    /\ Idle(t) /\ ops > 0 /\ CondLock \in held[t]
    /\ ops' = ops - 1
    /\ frame' = [frame EXCEPT ![t] = "cond_broadcast"]
    /\ pc' = [pc EXCEPT ![t] = "cb_test"]
    /\ UNCHANGED <<cur, panic, semv, lockv, cond_waiters, envv, obsv, userv, histv>>

\* (mutant) cond_broadcast that stops with one waiter left.
cond_broadcast_test_early(t) ==
    /\ At(t, "cb_test")
    /\ IF Len(cond_waiters) <= 1
       THEN /\ pc' = [pc EXCEPT ![t] = "idle"]
            /\ frame' = [frame EXCEPT ![t] = "none"]
            /\ UNCHANGED <<cond_waiters, panic>>
       ELSE IF holder[CondLock] # t
       THEN /\ panic' = "assert_lock_held"
            /\ UNCHANGED <<pc, frame, cond_waiters>>
       ELSE /\ cond_waiters' = list_sort(cond_waiters, by_sema)
            /\ pc' = [pc EXCEPT ![t] = "cs_pop"]
            /\ UNCHANGED <<frame, panic>>
    /\ UNCHANGED <<cur, ops, semv, lockv, envv, obsv, userv, histv>>

\* cond_broadcast: while (!list_empty (&cond->waiters)) cond_signal (cond, lock),
\* up to cond_signal's list_sort.
cond_broadcast_test(t) ==
    /\ At(t, "cb_test")
    /\ IF cond_waiters = <<>>
       THEN /\ pc' = [pc EXCEPT ![t] = "idle"]
            /\ frame' = [frame EXCEPT ![t] = "none"]
            /\ UNCHANGED <<cond_waiters, panic>>
       ELSE IF holder[CondLock] # t
       THEN /\ panic' = "assert_lock_held"
            /\ UNCHANGED <<pc, frame, cond_waiters>>
       ELSE /\ cond_waiters' = list_sort(cond_waiters, by_sema)
            /\ pc' = [pc EXCEPT ![t] = "cs_pop"]
            /\ UNCHANGED <<frame, panic>>
    /\ UNCHANGED <<cur, ops, semv, lockv, envv, obsv, userv, histv>>

----------------------------------------------------------------------------
(* The programs.                                                           *)

PriorityChoices == {[t \in Threads |-> t]}

NoWake == [pri |-> NULL, max |-> NULL, resorted |-> FALSE]


InitThreads ==
    /\ pc = [t \in Threads |-> "idle"]
    /\ cur = [t \in Threads |-> NULL]
    /\ frame = [t \in Threads |-> "none"]
    /\ status = [t \in Threads |-> "ready"]
    /\ waiters = [s \in Semas |-> <<>>]
    /\ holder = [l \in Locks |-> NULL]
    /\ origin_priority \in PriorityChoices
    /\ priority = origin_priority
    /\ donations = [t \in Threads |-> <<>>]
    /\ wait_on_lock = [t \in Threads |-> NULL]
    /\ cond_waiters = <<>>
    /\ panic = "none"
    /\ held = [t \in Threads |-> {}]
    /\ downs = 0
    /\ ups = 0
    /\ woke = NoWake
    /\ wups = [t \in Threads |-> 0]
    /\ ret = NoReturn
    /\ requeued = FALSE
    /\ predicate = FALSE
    /\ loops = [t \in Threads |-> 0]

\* Donation mode.
InitCommon == InitThreads /\ thread_mlfqs = FALSE

InitValue(v) == [s \in Semas |-> IF s[1] = "lock" THEN 1 ELSE IF s = UserSema THEN v ELSE 0]

\* Locks in donation mode: any thread acquires, tries and releases any lock.
Init ==
    /\ InitCommon
    /\ strict = FALSE
    /\ ops = MaxOps
    /\ ub = "cmp"
    /\ init_value = 0
    /\ value = InitValue(init_value)

LockStep(t) ==
    \/ lock_try_acquire_set(t)
    \/ lock_acquire_wait(t)
    \/ lock_acquire_insert(t)
    \/ lock_acquire_donate(t)
    \/ lock_acquire_down(t)
    \/ lock_acquire_set(t)
    \/ lock_acquire_clear(t)
    \/ lock_release_donate(t)
    \/ lock_release_null(t)
    \/ lock_release_up(t)

LockProgram(t) ==
    \/ \E l \in Locks : lock_acquire_call(t, l)
    \/ \E l \in Locks : lock_try_acquire_call(t, l)
    \/ \E l \in Locks : lock_release_call(t, l)
    \/ LockStep(t)

Next == \E t \in Threads : LockProgram(t)

Spec == Init /\ [][Next]_vars

\* One semaphore that any thread downs, tries and ups, among threads that also
\* take locks and so donate priority to threads queued on the semaphore.
InitSema ==
    /\ InitCommon
    /\ strict = FALSE
    /\ ops = MaxOps
    /\ ub = "cmp"
    /\ init_value \in 0..MaxValue
    /\ value = InitValue(init_value)

NextSema ==
    \E t \in Threads :
        \/ sema_down_call(t)
        \/ sema_down_step(t)
        \/ sema_try_down_call(t)
        \/ sema_up_call(t)
        \/ \E l \in Locks : lock_acquire_call(t, l)
        \/ lock_try_acquire_set(t)
        \/ lock_acquire_wait(t)
        \/ lock_acquire_insert(t)
        \/ lock_acquire_donate(t)
        \/ lock_acquire_down(t)

SpecSema == InitSema /\ [][NextSema]_vars

\* One condition variable and its lock among NCondThreads threads, under every
\* outcome of the comparator's missing return.
InitCond ==
    /\ InitCommon
    /\ strict = FALSE
    /\ ops = MaxCondOps
    /\ ub \in {"cmp", "false", "true"}
    /\ init_value = 0
    /\ value = InitValue(init_value)

CondProgram(t) ==
    \/ lock_acquire_call(t, CondLock)
    \/ lock_release_call(t, CondLock)
    \/ cond_wait_call(t)
    \/ cond_wait_release(t)
    \/ cond_wait_down(t)
    \/ cond_wait_acquire(t)
    \/ cond_signal_call(t)
    \/ cond_signal_pop(t)
    \/ cond_broadcast_call(t)
    \/ cond_broadcast_test(t)
    \/ LockStep(t)

NextCond == \E t \in CondThreads : CondProgram(t)

SpecCond == InitCond /\ [][NextCond]_vars

\* A caller of cond_wait as the header comment of cond_wait prescribes it: with
\* the lock held, `while (!predicate) cond_wait (&cond, &lock);'.  The loop is
\* entered here.
mesa_wait_call(t) ==
    /\ Idle(t) /\ ops > 0 /\ holder[CondLock] = t /\ loops[t] = 0
    /\ ops' = ops - 1
    /\ loops' = [loops EXCEPT ![t] = 1]
    /\ pc' = [pc EXCEPT ![t] = "mesa_test"]
    /\ UNCHANGED <<cur, frame, panic, semv, lockv, cond_waiters, envv, obsv, predicate, histv>>

\* The test of the loop: cond_wait when the predicate is false, past the loop
\* when it is true.
mesa_test(t) ==
    /\ At(t, "mesa_test")
    /\ IF predicate
       THEN /\ pc' = [pc EXCEPT ![t] = "mesa_past"]
            /\ UNCHANGED <<cur, frame, panic, value, waiters, cond_waiters, wups, loops>>
       ELSE /\ cond_wait_enter(t)
            /\ loops' = [loops EXCEPT ![t] = @ + 1]
    /\ UNCHANGED <<ops, status, lockv, envv, ret, requeued, predicate, histv>>

\* The statement after the loop: the caller goes on with the lock held.
mesa_past(t) ==
    /\ At(t, "mesa_past")
    /\ pc' = [pc EXCEPT ![t] = "idle"]
    /\ loops' = [loops EXCEPT ![t] = 0]
    /\ UNCHANGED <<cur, frame, ops, panic, semv, lockv, cond_waiters, envv, obsv, predicate, histv>>

\* A thread that holds the lock of the condition changes the predicate.
predicate_set(t, v) ==
    /\ Idle(t) /\ ops > 0 /\ holder[CondLock] = t /\ predicate # v
    /\ ops' = ops - 1
    /\ predicate' = v
    /\ UNCHANGED <<pc, cur, frame, panic, semv, lockv, cond_waiters, envv, obsv, loops, histv>>

\* The monitor by threads that wait in the loop only.
MesaThreads == 1..NMesaThreads

InitMesa ==
    /\ InitCommon
    /\ strict = FALSE
    /\ ops = MaxMesaOps
    /\ ub \in {"cmp", "false", "true"}
    /\ init_value = 0
    /\ value = InitValue(init_value)

NextMesa ==
    \E t \in MesaThreads :
        \/ lock_acquire_call(t, CondLock)
        \/ lock_release_call(t, CondLock)
        \/ mesa_wait_call(t)
        \/ mesa_test(t)
        \/ mesa_past(t)
        \/ \E v \in BOOLEAN : predicate_set(t, v)
        \/ cond_wait_release(t)
        \/ cond_wait_down(t)
        \/ cond_wait_acquire(t)
        \/ cond_signal_call(t)
        \/ cond_signal_pop(t)
        \/ cond_broadcast_call(t)
        \/ cond_broadcast_test(t)
        \/ LockStep(t)

SpecMesa == InitMesa /\ [][NextMesa]_vars

\* Locks and one semaphore, by programs that look at what the try operations
\* return.
InitTry ==
    /\ InitCommon
    /\ strict = FALSE
    /\ ops = MaxTryOps
    /\ ub = "cmp"
    /\ init_value \in 0..MaxValue
    /\ value = InitValue(init_value)

NextTry ==
    \E t \in Threads :
        \/ \E l \in Locks : lock_acquire_call(t, l)
        \/ \E l \in Locks : lock_try_acquire_result(t, l)
        \/ \E l \in Locks : lock_release_call(t, l)
        \/ LockStep(t)
        \/ sema_try_down_result(t)
        \/ sema_up_call(t)

SpecTry == InitTry /\ [][NextTry]_vars

\* The lock programs in either mode, donation or MLFQ.
InitMode ==
    /\ InitThreads
    /\ thread_mlfqs \in BOOLEAN
    /\ strict = FALSE
    /\ ops = MaxOps
    /\ ub = "cmp"
    /\ init_value = 0
    /\ value = InitValue(init_value)

SpecMode == InitMode /\ [][Next]_vars

\* The same programs under strict priority scheduling.
InitPrio ==
    /\ InitCommon
    /\ strict = TRUE
    /\ ops = MaxPrioOps
    /\ ub = "cmp"
    /\ init_value = 0
    /\ value = InitValue(init_value)

SpecPrio == InitPrio /\ [][Next]_vars

InitCondPrio ==
    /\ InitCommon
    /\ strict = TRUE
    /\ ops = MaxCondOps
    /\ ub \in {"cmp", "false", "true"}
    /\ init_value = 0
    /\ value = InitValue(init_value)

SpecCondPrio == InitCondPrio /\ [][NextCond]_vars

----------------------------------------------------------------------------
(* Properties.                                                             *)

\* t queued on lock l's semaphore inside lock_acquire, and asleep.
AsleepOn(t, l) == pc[t] = "la_sleep" /\ status[t] = "blocked" /\ cur[t] = l

\* t was woken inside lock_acquire's sema_down and has not run since.
Woken(t) == pc[t] = "la_sleep" /\ status[t] = "ready"

\* t has decremented lock l's semaphore and has not yet upped it.
Owns(t, l) ==
    \/ l \in held[t]
    \/ cur[t] = l /\ pc[t] \in {"lt_set", "la_try_set", "la_set", "la_clear"}

\* No lock operation is in the middle of its statements: every thread is between
\* calls or asleep in lock_acquire.
Quiescent ==
    /\ panic = "none"
    /\ \A t \in Threads : pc[t] = "idle" \/ (pc[t] = "la_sleep" /\ status[t] = "blocked")

Larger(a, b) == IF a >= b THEN a ELSE b

\* C1. Mutual exclusion: at most one thread at a time has taken a lock (its
\* lock_acquire or successful lock_try_acquire went through the semaphore) and
\* has not yet given it back in lock_release; so no lock_try_acquire succeeds
\* while another thread holds the lock.
C1_MutualExclusion ==
    \A l \in Locks : \A t, u \in Threads : (Owns(t, l) /\ Owns(u, l)) => t = u

\* C1's case: a thread holds a lock while another one is asleep waiting for it.
C1_Contended ==
    \E l \in Locks : \E t, u \in Threads : l \in held[t] /\ AsleepOn(u, l)

\* C2. Counting invariant: the user semaphore's value is never negative, and the
\* completed downs (sema_down returned, sema_try_down returned true) never
\* exceed the completed sema_ups plus the initial value.
C2_Counting ==
    /\ value[UserSema] >= 0
    /\ downs <= ups + init_value

\* C2's case: a waiter was woken by sema_up and another consumer has taken the
\* freed unit before the waiter ran.
C2_WokenAndOvertaken ==
    \E t \in Threads :
        /\ pc[t] = "sd_sleep" /\ status[t] = "ready"
        /\ value[UserSema] = 0 /\ ups > 0 /\ downs > 0

\* C3. Wake ordering: the thread a sema_up wakes has, at that moment, the highest
\* priority of all the threads in the wait queue, whatever the order they were
\* queued in.
C3_WakesHighest == woke.pri = woke.max

\* C3's case: the thread woken was not at the front of the queue as it was
\* inserted, its priority having been raised by a donation while it was queued.
C3_WokenAfterBoost == woke.resorted

\* The largest priority among the donors of t, or t's own base priority if higher.
DonatedMax(t) ==
    LET all == {origin_priority[t]} \cup {priority[d] : d \in Elems(donations[t])}
    IN  CHOOSE p \in all : \A q \in all : p >= q

SortedDescending(list) ==
    \A i, j \in 1..Len(list) : i < j => priority[list[i]] >= priority[list[j]]

\* While T2 sleeps in lock_acquire on a lock T1 holds, T2 is T1's only donor and
\* T1 is not inside lock_release, T1's priority is the larger of its base
\* priority and T2's priority.
C4_Donated ==
    \A l \in Locks : \A t1, t2 \in Threads :
        (/\ holder[l] = t1 /\ AsleepOn(t2, l)
         /\ donations[t1] = <<t2>>
         /\ pc[t1] # "lr_donate")
        => priority[t1] = Larger(origin_priority[t1], priority[t2])

\* A thread with no donors has its base priority, once the priority_donation of
\* the lock_release that emptied the list has run.
C4_Reverted ==
    \A t \in Threads :
        (donations[t] = <<>> /\ pc[t] # "lr_donate") => priority[t] = origin_priority[t]

\* A thread that went through lock_acquire's sema_down is the holder from the
\* next statement on.
C4_Holder ==
    \A t \in Threads : pc[t] = "la_clear" => holder[cur[t]] = t

\* lock_release drops every donor that waits for the released lock, and a thread
\* that wakes up in lock_acquire and takes the lock keeps its priority.
C4_Step ==
    \A t \in Threads :
        /\ (pc[t] = "idle" /\ pc'[t] = "lr_donate")
           => \A d \in Elems(donations'[t]) : wait_on_lock[d] # cur'[t]
        /\ (pc[t] \in {"la_sleep", "la_set", "la_clear"} /\ pc'[t] # pc[t])
           => priority'[t] = priority[t]

\* C4. Donation and revert: T2 asleep in lock_acquire on T1's lock, with a
\* priority above T1's base priority and no other donor, makes T1's priority
\* equal to T2's for as long as T1 does not release; lock_release takes T2 out
\* of T1's donors and, with none left, T1 is back at its base priority; T2 is
\* the holder once it has taken the lock, with the priority it had.
C4_DonationAndRevert ==
    /\ [](C4_Donated /\ C4_Reverted /\ C4_Holder)
    /\ [][C4_Step]_vars

\* C4's case: T2 sleeps on T1's lock and T1 runs at T2's priority, above its own.
C4_Boosted ==
    \E l \in Locks : \E t1, t2 \in Threads :
        /\ holder[l] = t1 /\ AsleepOn(t2, l) /\ donations[t1] = <<t2>>
        /\ priority[t2] > origin_priority[t1]
        /\ priority[t1] = priority[t2]

\* C5. No priority inversion: when no lock operation is in the middle of its
\* statements, the holder of a lock has at least the priority of every thread
\* asleep in lock_acquire on that lock.
C5_NoInversion ==
    Quiescent =>
        \A l \in Locks : \A w \in Threads :
            (holder[l] # NULL /\ AsleepOn(w, l)) => priority[holder[l]] >= priority[w]

\* C6. Transitive donation: when A sleeps on a lock held by B, B sleeps on a lock
\* held by C, both donations were made (A is in B's donations, B in C's), no
\* lock operation is in the middle of its statements and A's priority is above
\* the base priorities of B and C, both B and C have at least A's priority.
C6_Transitive ==
    Quiescent =>
        \A l1, l2 \in Locks : \A a, b, c \in Threads :
            (/\ AsleepOn(a, l1) /\ holder[l1] = b /\ a \in Elems(donations[b])
             /\ AsleepOn(b, l2) /\ holder[l2] = c /\ b \in Elems(donations[c])
             /\ priority[a] > origin_priority[b]
             /\ priority[a] > origin_priority[c])
            => (priority[b] >= priority[a] /\ priority[c] >= priority[a])

\* C7. Effective-priority formula: when no lock operation is in the middle of
\* its statements, every thread's priority is the largest of its base priority
\* and its donors' priorities, and its donations are in descending order of
\* priority.
C7_Formula ==
    Quiescent =>
        \A t \in Threads :
            /\ priority[t] = DonatedMax(t)
            /\ SortedDescending(donations[t])

\* t is between two statements of a lock operation, at a point where it is
\* neither asleep nor about to enter sema_down.
MidLockOperation(t) ==
    /\ status[t] = "ready"
    /\ pc[t] \in {"la_try_set", "lt_set", "la_wait", "la_insert", "la_donate", "la_set",
                  "la_clear", "lr_donate", "lr_null", "lr_up"}

\* C8. Atomicity of lock operations: no other thread runs between two statements
\* of a lock operation: while a thread is in the middle of one, the next step is
\* that thread's.
C8_Atomic ==
    [][\A t \in Threads : MidLockOperation(t) => (pc'[t] # pc[t] \/ panic' # "none")]_vars

\* C9. Ownership transfer: from the lock_release that wakes W until W runs, nobody
\* else takes the lock: the unit the release put in the semaphore is still there.
C9_Transfer ==
    \A w \in Threads : Woken(w) => value[LockSema(cur[w])] > 0

\* C9 as amended: a thread that lock_acquire has returned to is the lock's holder
\* and has no wait_on_lock, whether it got the lock at its first wake-up or had
\* to queue again because another thread had taken it in between.
C9_HolderOnReturn ==
    \A t \in Threads :
        /\ pc[t] = "idle" => wait_on_lock[t] = NULL
        /\ \A l \in held[t] : (pc[t] = "lr_up" /\ cur[t] = l) \/ holder[l] = t
        /\ pc[t] = "la_clear" => holder[cur[t]] = t

\* C9's case: W was woken by lock_release and another thread has become the
\* lock's holder before W ran.
C9_Overtaken ==
    \E w \in Threads : Woken(w) /\ holder[cur[w]] \notin {NULL, w}

\* C10. Condition-variable wake ordering: the waiter cond_signal pops has the
\* highest priority of all the threads in the condition's list (stated for the
\* build in which the comparator's missing return yields cmp_priority's result).
C10_SignalsHighest ==
    [][(ub = "cmp" /\ Len(cond_waiters') < Len(cond_waiters))
        => \A u \in Elems(cond_waiters) :
               priority[Head(cond_waiters)] >= priority[u]]_vars

\* A thread inside cond_wait that has released the lock and not yet passed the
\* sema_down on its private semaphore does not have the lock.
C11_Released ==
    \A t \in Threads :
        pc[t] \in {"cw_down", "cw_sleep"}
        => (CondLock \notin held[t] /\ holder[CondLock] # t)

\* A thread gets past the sema_down of cond_wait only when its waiter record has
\* been popped and its semaphore upped once, and it leaves cond_wait as the
\* lock's holder.
C11_Step ==
    \A t \in Threads :
        /\ (pc[t] \in {"cw_down", "cw_sleep"} /\ pc'[t] = "cw_acquire")
           => (t \notin Elems(cond_waiters) /\ wups[t] = 1)
        /\ (frame[t] = "cond_wait" /\ frame'[t] = "none")
           => (holder'[CondLock] = t /\ CondLock \in held'[t])

\* C11. cond_wait state machine: the caller has released the lock before it
\* blocks, goes on only after a cond_signal has popped its own waiter record and
\* upped its private semaphore, and holds the lock again when cond_wait returns.
C11_WaitStateMachine == [](C11_Released) /\ [][C11_Step]_vars

\* C11's case: a thread that waited, was signalled and has the lock again is
\* about to return from cond_wait.
C11_Reacquired ==
    \E t \in Threads :
        frame[t] = "cond_wait" /\ wups[t] = 1 /\ pc[t] \in {"la_clear", "la_try_set"}

\* cond_broadcast returns with the condition's list empty and with every thread
\* that is inside cond_wait upped once on its private semaphore; no private
\* semaphore is ever upped twice.
C12_Step ==
    \A t \in Threads :
        (frame[t] = "cond_broadcast" /\ frame'[t] = "none")
        => /\ cond_waiters' = <<>>
           /\ \A w \in Threads : frame[w] = "cond_wait" => wups[w] = 1

\* C12. cond_broadcast wakes every waiter: when it returns the list is empty and
\* each waiter record that was in it has had its semaphore upped exactly once.
C12_BroadcastWakesAll ==
    /\ [](\A w \in Threads : wups[w] <= 1)
    /\ [][C12_Step]_vars

\* C12's case: a cond_broadcast has emptied a list of two waiters.
C12_TwoWoken ==
    \E t, u, w \in Threads :
        /\ u # w
        /\ pc[t] = "cb_test" /\ cond_waiters = <<>>
        /\ frame[u] = "cond_wait" /\ wups[u] = 1
        /\ frame[w] = "cond_wait" /\ wups[w] = 1

\* What a try operation that has just returned has done.
C13_Step ==
    ret' # ret =>
        /\ status' = status /\ waiters' = waiters
        /\ ret'.op = "sema_try_down" =>
              /\ ret'.ok = (value[UserSema] > 0)
              /\ value' = IF ret'.ok THEN [value EXCEPT ![UserSema] = @ - 1] ELSE value
              /\ UNCHANGED <<pc, holder, priority, donations, wait_on_lock>>
        /\ ret'.op = "lock_try_acquire" =>
              /\ ret'.ok = (value[LockSema(ret'.lock)] > 0)
              /\ ~ret'.ok => UNCHANGED <<pc, value, holder, priority, donations, wait_on_lock>>

\* C13. Failed try operations have no side effects: sema_try_down returns true
\* and decrements exactly when the value is positive and otherwise changes
\* nothing; a lock_try_acquire that returns false leaves the holder, the
\* semaphore and every thread's priority, donations and wait_on_lock as they
\* were; neither blocks the caller.
C13_TryNoSideEffects == [][C13_Step]_vars

\* C13's case: lock_try_acquire has just failed on a lock whose holder has a
\* donor.
C13_FailedOnContended ==
    /\ ret.op = "lock_try_acquire" /\ ~ret.ok /\ ret.at = ops + 1
    /\ holder[ret.lock] # NULL
    /\ donations[holder[ret.lock]] # <<>>

\* C14. MLFQ mode disables donation: while thread_mlfqs is set, lock operations
\* leave every thread's priority at the value it had and every donations list
\* empty, and a lock still has at most one owner at a time.
C14_MlfqsNoDonation ==
    thread_mlfqs =>
        /\ priority = origin_priority
        /\ \A t \in Threads : donations[t] = <<>>
        /\ \A l \in Locks : \A t, u \in Threads : (Owns(t, l) /\ Owns(u, l)) => t = u

\* C14's case: in MLFQ mode a thread sleeps in lock_acquire on a lock held by a
\* thread of lower priority.
C14_BlockedOnLower ==
    /\ thread_mlfqs
    /\ \E l \in Locks : \E t, u \in Threads :
           l \in held[t] /\ AsleepOn(u, l) /\ priority[u] > priority[t]

\* C15: a thread that runs `while (!predicate) cond_wait (&cond, &lock);' is
\* past the loop only while the predicate is true, whatever signals and
\* broadcasts arrive and whenever they do; the predicate is changed only by
\* threads that hold the lock.
C15_MesaRecheck ==
    \A t \in Threads : pc[t] = "mesa_past" => predicate /\ holder[CondLock] = t

\* A thread is past the loop after a wake-up that found the predicate false
\* and a second cond_wait.
C15_PastAfterSpuriousWakeup ==
    \E t \in Threads : pc[t] = "mesa_past" /\ loops[t] >= 3 /\ panic = "none"

\* How many times d is in list.
Count(list, d) == Cardinality({i \in 1..Len(list) : list[i] = d})

\* lock_release of cur'[t] takes out of t's donations exactly the donors that
\* wait for that lock and keeps the others, and its priority_donation leaves t
\* with the largest of its base priority and the priorities of those it kept.
C16_Step ==
    \A t \in Threads :
        /\ (pc[t] = "idle" /\ pc'[t] = "lr_donate")
           => \A d \in Threads :
                  Count(donations'[t], d) =
                      IF wait_on_lock[d] = cur'[t] THEN 0 ELSE Count(donations[t], d)
        /\ (pc[t] = "lr_donate" /\ pc'[t] = "lr_null")
           => priority'[t] = DonatedMax(t)'

C16_KeptDonorOfOtherLock ==
    \E t, d, e \in Threads : \E y \in Locks :
        /\ pc[t] = "lr_null" /\ y # cur[t] /\ holder[y] = t
        /\ AsleepOn(d, y) /\ d \in Elems(donations[t])
        /\ AsleepOn(e, cur[t]) /\ e \notin Elems(donations[t])
        /\ priority[t] = priority[d] /\ priority[d] > origin_priority[t]

\* The semaphore in whose sema_down t is asleep or was woken, if any.
SleepsIn(t, s) ==
    \/ pc[t] = "sd_sleep" /\ s = UserSema
    \/ pc[t] = "la_sleep" /\ s = LockSema(cur[t])
    \/ pc[t] = "cw_sleep" /\ s = WaiterSema(t)

\* The waiters of every semaphore are threads blocked in sema_down on it, each
\* once.
C17_OnlyBlocked ==
    \A s \in Semas : \A t \in Threads :
        /\ Count(waiters[s], t) <= 1
        /\ t \in Elems(waiters[s]) => (status[t] = "blocked" /\ SleepsIn(t, s))

\* A thread that sema_up woke and that finds the value 0 when it runs is in the
\* list once, and blocked, after its step.
C17_Step ==
    \A s \in Semas : \A t \in Threads :
        (/\ SleepsIn(t, s) /\ status[t] = "ready" /\ value[s] = 0
         /\ <<pc[t], status[t]>> # <<pc'[t], status'[t]>>)
        => (Count(waiters'[s], t) = 1 /\ status'[t] = "blocked" /\ pc'[t] = pc[t])

\* C17. Wait-queue membership: a semaphore's waiters are threads blocked in
\* sema_down on that semaphore, each at most once; a thread sema_up unblocked is
\* not in the list, and one that wakes to a value of 0 puts itself back exactly
\* once before it blocks again.
C17_WaitQueueMembership == [](C17_OnlyBlocked) /\ [][C17_Step]_vars

\* A woken thread found the user semaphore at 0 and is queued and blocked again.
C17_Requeued ==
    \E t \in Threads :
        /\ requeued /\ pc[t] = "sd_sleep" /\ status[t] = "blocked"
        /\ t \in Elems(waiters[UserSema]) /\ ups > 0

\* C18. Holder is never null where it is dereferenced: lock->holder is not NULL
\* when lock_acquire inserts the caller into lock->holder->donations, and
\* priority_donation is never handed NULL, directly or through
\* t->wait_on_lock->holder, so its ASSERT (t != NULL) never fails.
C18_HolderNeverNull == panic \notin {"null_holder", "assert_t_null"}

\* C19. No stale or duplicated donors: every thread in the donations of t waits
\* for a lock whose holder is t, and no thread is in two donations lists or
\* twice in one.
C19_NoStaleDonors ==
    \A t, d \in Threads :
        /\ Count(donations[t], d) <= 1
        /\ d \in Elems(donations[t])
           => /\ wait_on_lock[d] # NULL
              /\ holder[wait_on_lock[d]] = t
              /\ \A u \in Threads \ {t} : d \notin Elems(donations[u])

\* t's record was popped by cond_signal or cond_broadcast and t has not yet
\* returned from cond_wait.
Popped(t) == frame[t] = "cond_wait" /\ wups[t] > 0

====
